---- MODULE Spec2Model ----
(***************************************************************************)
(* Model of apps/projects/models.py: the UserProject, ProjectSubmission    *)
(* and ProjectAssessment tables, the in-memory model objects a caller      *)
(* holds, and the three overridden save() methods with their cascades.     *)
(***************************************************************************)
EXTENDS Integers, FiniteSets, Sequences, TLC

\* ---------------------------------------------------------------- bounds
MaxOps == 4
MaxInst == 2
MaxSub == 2
MaxAsm == 2
MaxHandles == 2
MaxUser == 2
MaxCalls == 2

InstIds == 1..MaxInst
SubIds == 1..MaxSub
AsmIds == 1..MaxAsm
Handles == 1..MaxHandles
Users == 1..MaxUser
Threads == 1..MaxCalls
Projects == {1}

\* ------------------------------------------------------ program constants
USER_PROJECT_STATUS_CHOICES ==
    {"not_started", "in_progress", "submitted", "assessed",
     "completed", "failed", "archived"}

\* null of a nullable column
NULL == 0

\* UserProject.status default
DefaultStatus == "not_started"

\* ProjectSubmission.submission_version default
DefaultVersion == 1

\* MinValueValidator / MaxValueValidator of ProjectAssessment.score
MinScore == 0
MaxScore == 100

\* the module imports uuid, models, settings, gettext_lazy and the two
\* validators; the name `timezone` is bound nowhere in the module
timezone_defined == FALSE

\* values a caller passes as submission_version (DefaultVersion when omitted)
CallerVersions == {DefaultVersion, 3}

\* values a caller passes as score (NULL when omitted)
CallerScores == {NULL, MinScore - 1, 88, MaxScore + 1}

VARIABLES
    ups,    \* UserProject table: id -> row
    subs,   \* ProjectSubmission table: id -> row
    asms,   \* ProjectAssessment table: id -> row
    mem,    \* in-memory UserProject objects held by callers: handle -> object
    nops,   \* number of operations performed; the clock reads nops + 1
    last,   \* the operation that led to the current state and its outcome
    scen,   \* per instance: position in the submit / fail / resubmit / pass scenario
    calls   \* ProjectSubmission.save calls in flight or returned: thread -> frame

vars == <<ups, subs, asms, mem, nops, last, scen, calls>>

\* the current time, as a DateTimeField value (never NULL)
Now == nops + 1

\* smallest id not in use (a fresh uuid4)
FreshId(table, ids) == CHOOSE i \in ids \ DOMAIN table :
                          \A j \in ids \ DOMAIN table : i <= j

\* what `last` records: the operation, how it ended, and the rows it was about
Did(op, result, h, inst, sub, asm) ==
    [op |-> op, result |-> result, h |-> h, inst |-> inst, sub |-> sub, asm |-> asm]

NoOp == Did("init", "ok", 0, 0, 0, 0)

\* scenario position of an instance that has left the scenario
ScenOff == 0 - 1

Init ==
    /\ ups = << >>
    /\ subs = << >>
    /\ asms = << >>
    /\ mem = << >>
    /\ nops = 0
    /\ last = NoOp
    /\ scen = [i \in InstIds |-> ScenOff]
    /\ calls = << >>

\* ------------------------------------------------------------ UserProject

\* the stored columns of a UserProject row (id is the key of the table)
UserProjectFields ==
    {"user", "project", "status", "started_at", "completed_at",
     "repository_url", "live_url", "updated_at"}

\* UserProject(user=u, project=p): every other field takes its default; id 0
\* stands for a uuid4 that is not in the table
NewUserProject(u, p) ==
    [id |-> 0, user |-> u, project |-> p, status |-> DefaultStatus,
     started_at |-> NULL, completed_at |-> NULL,
     repository_url |-> NULL, live_url |-> NULL, updated_at |-> NULL]

\* the row an object is stored as
RowOf(obj) == [f \in UserProjectFields |-> obj[f]]

\* the object a stored row is loaded as
ObjOf(id, row) ==
    [id |-> id, user |-> row.user, project |-> row.project, status |-> row.status,
     started_at |-> row.started_at, completed_at |-> row.completed_at,
     repository_url |-> row.repository_url, live_url |-> row.live_url,
     updated_at |-> row.updated_at]

\* a table whose Meta declares no unique_together: every row is accepted
UniqueTogether_dropped(table, id, row) == TRUE

\* Meta.unique_together = [['user', 'project']]: the unique constraint of the
\* table accepts `row` under key `id` iff no other row has its (user, project)
UniqueTogether(table, id, row) ==
    \A j \in DOMAIN table :
        j # id => ~(table[j].user = row.user /\ table[j].project = row.project)

\* models.Model.save for UserProject: updated_at is stamped (auto_now) when it is
\* among the written fields; an object not yet stored is INSERTed whole under a
\* fresh id, a stored one has `fields` UPDATEd; the unique constraint rejects
\* the write with IntegrityError
UserProject_super_save(obj, table, fields, now) ==
    LET stamped == IF "updated_at" \in fields
                   THEN [obj EXCEPT !.updated_at = now] ELSE obj
        adding  == obj.id \notin DOMAIN table
        id      == IF adding THEN FreshId(table, InstIds) ELSE obj.id
        row     == IF adding THEN RowOf(stamped)
                   ELSE [f \in UserProjectFields |->
                            IF f \in fields THEN stamped[f] ELSE table[id][f]]
    IN  IF UniqueTogether(table, id, row)
        THEN [result |-> "ok",
              table  |-> IF adding THEN table @@ (id :> row)
                         ELSE [table EXCEPT ![id] = row],
              obj    |-> [stamped EXCEPT !.id = id]]
        ELSE [result |-> "IntegrityError", table |-> table, obj |-> stamped]

\* UserProject.save: stamps started_at with timezone.now() on an in_progress
\* object that has none, then saves; the name timezone is unbound, so the
\* stamping raises NameError before anything is written
UserProject_save(obj, table, fields, now) ==
    IF obj.status = "in_progress" /\ obj.started_at = NULL
    THEN IF timezone_defined
         THEN UserProject_super_save([obj EXCEPT !.started_at = now], table, fields, now)
         ELSE [result |-> "NameError", table |-> table, obj |-> obj]
    ELSE UserProject_super_save(obj, table, fields, now)

\* scenario position of instance i after a caller's own save of it
ScenAfterSave(wasNew, row) ==
    IF wasNew /\ row.status = "not_started" THEN 0 ELSE ScenOff

\* ----------------------------------------------------- caller, in memory

\* a handle is bound only after the handles below it (handles are interchangeable)
Bindable(h) == \A g \in Handles : g < h => g \in DOMAIN mem

Bind(h, obj) == IF h \in DOMAIN mem THEN [mem EXCEPT ![h] = obj] ELSE mem @@ (h :> obj)

\* h = UserProject.objects.get(pk=i)
Get(h, i) ==
    /\ nops < MaxOps
    /\ Bindable(h)
    /\ i \in DOMAIN ups
    /\ mem' = Bind(h, ObjOf(i, ups[i]))
    /\ nops' = nops + 1
    /\ last' = Did("Get", "ok", h, i, 0, 0)
    /\ UNCHANGED <<ups, subs, asms, scen, calls>>

\* the values a caller assigns to a field of an object
CallerValues(f) ==
    CASE f = "status" -> USER_PROJECT_STATUS_CHOICES
      [] f = "user" -> Users
      [] f \in {"started_at", "completed_at"} -> {NULL, Now}
      [] OTHER -> {NULL, 1}

CallerFields ==
    {"status", "user", "started_at", "completed_at", "repository_url", "live_url"}

\* h.f = v
SetAttr(h, f, v) ==
    /\ nops < MaxOps
    /\ h \in DOMAIN mem
    /\ mem[h][f] # v
    /\ mem' = [mem EXCEPT ![h][f] = v]
    /\ nops' = nops + 1
    /\ last' = Did("SetAttr", "ok", h, 0, 0, 0)
    /\ UNCHANGED <<ups, subs, asms, scen, calls>>

\* ------------------------------------------------------- UserProject.save

\* the caller's save of obj, bound to h afterwards
DoSave(op, h, obj) ==
    LET r == UserProject_save(obj, ups, UserProjectFields, Now)
        wasNew == obj.id \notin DOMAIN ups
    IN  /\ ups' = r.table
        /\ mem' = Bind(h, r.obj)
        /\ scen' = IF r.result = "ok"
                   THEN [scen EXCEPT ![r.obj.id] = ScenAfterSave(wasNew, r.table[r.obj.id])]
                   ELSE scen
        /\ last' = Did(op, r.result, h, r.obj.id, 0, 0)
        /\ nops' = nops + 1
        /\ UNCHANGED <<subs, asms, calls>>

\* h = UserProject.objects.create(user=u, project=p)
CreateUserProject(h, u, p) ==
    /\ nops < MaxOps
    /\ Bindable(h)
    /\ DOMAIN ups # InstIds
    /\ DoSave("CreateUserProject", h, NewUserProject(u, p))

\* h.save()
SaveUserProject(h) ==
    /\ nops < MaxOps
    /\ h \in DOMAIN mem
    /\ (mem[h].id \notin DOMAIN ups => DOMAIN ups # InstIds)
    /\ DoSave("SaveUserProject", h, mem[h])

\* ------------------------------------------------------ ProjectSubmission

\* a parent save in the hook that names no update_fields writes every field
SubmissionCascadeFields_all == UserProjectFields

\* update_fields of the parent save in the hook of ProjectSubmission.save
SubmissionCascadeFields == {"status", "updated_at"}

\* ProjectSubmission.id = UUIDField(primary_key=True, default=uuid.uuid4): the
\* default is drawn when the object is constructed, so a new object has a pk
\* before its first save unless the caller constructed it with id=None
PkBeforeSave(id_none) == ~id_none

\* ProjectSubmission.objects.filter(user_project=i)
SubmissionsOf(table, i) == {s \in DOMAIN table : table[s].user_project = i}

\* .order_by('-submission_version').first(): the submissions of instance i
\* with the highest version; empty when there is none
LatestSubmission(table, i) ==
    {s \in SubmissionsOf(table, i) :
        \A t \in SubmissionsOf(table, i) :
            table[t].submission_version <= table[s].submission_version}

\* lines 204-211 of ProjectSubmission.save for a new object whose user_project
\* is `up` and whose submission_version is `ver`: when the object has no pk,
\* the parent's status is set and saved (status, updated_at), the latest stored
\* submission of the parent is read and the version follows it; db_ok tells
\* whether the database carries out the UPDATE of the parent or the write
\* raises DatabaseError
ProjectSubmission_hook(up, ver, id_none, db_ok, upTable, subTable, now) ==
    LET hook   == ~PkBeforeSave(id_none)
        set    == [up EXCEPT !.status = "submitted"]
        r      == IF hook
                  THEN IF db_ok
                       THEN UserProject_save(set, upTable, SubmissionCascadeFields, now)
                       ELSE [result |-> "DatabaseError", table |-> upTable, obj |-> set]
                  ELSE [result |-> "ok", table |-> upTable, obj |-> up]
        latest == LatestSubmission(subTable, up.id)
        ver1   == IF hook /\ latest # {}
                  THEN subTable[CHOOSE s \in latest : TRUE].submission_version + 1
                  ELSE ver
    IN  [result |-> r.result, ups |-> r.table, obj |-> r.obj, ver |-> ver1]

\* line 212 of ProjectSubmission.save: super().save() INSERTs the row with
\* the version the object carries at that moment
ProjectSubmission_insert(i, ver, subTable) ==
    LET sid == FreshId(subTable, SubIds)
    IN  [sub |-> sid,
         subs |-> subTable @@
                    (sid :> [user_project |-> i, submission_version |-> ver,
                             submission_notes |-> NULL])]

\* a save that INSERTs the row first and cascades afterwards: the row is
\* stored whether or not the write to the parent raises
ProjectSubmission_save_insert_first(up, ver, id_none, db_ok, upTable, subTable, now) ==
    LET k == ProjectSubmission_hook(up, ver, id_none, db_ok, upTable, subTable, now)
        n == ProjectSubmission_insert(up.id, k.ver, subTable)
    IN  [result |-> k.result, ups |-> k.ups, obj |-> k.obj, sub |-> n.sub,
         subs |-> n.subs]

\* ProjectSubmission.save of a new object, run without interruption: an
\* exception of the hook ends the save before the INSERT
ProjectSubmission_save(up, ver, id_none, db_ok, upTable, subTable, now) ==
    LET k == ProjectSubmission_hook(up, ver, id_none, db_ok, upTable, subTable, now)
        n == ProjectSubmission_insert(up.id, k.ver, subTable)
    IN  IF k.result = "ok"
        THEN [result |-> "ok", ups |-> k.ups, obj |-> k.obj, sub |-> n.sub,
              subs |-> n.subs]
        ELSE [result |-> k.result, ups |-> k.ups, obj |-> k.obj, sub |-> 0,
              subs |-> subTable]

\* scenario position of an instance after a submission was created for it
ScenAfterSubmission(pos) == IF pos \in {0, 2} THEN pos + 1 ELSE ScenOff

\* ProjectSubmission(user_project=h, submission_version=ver[, id=None]).save()
CreateSubmission(h, ver, id_none, db_ok) ==
    /\ nops < MaxOps
    /\ h \in DOMAIN mem
    /\ mem[h].id \in DOMAIN ups
    /\ DOMAIN subs # SubIds
    /\ LET r == ProjectSubmission_save(mem[h], ver, id_none, db_ok, ups, subs, Now)
           i == mem[h].id
       IN  /\ ups' = r.ups
           /\ subs' = r.subs
           /\ mem' = [mem EXCEPT ![h] = r.obj]
           /\ scen' = IF r.result = "ok"
                      THEN [scen EXCEPT ![i] = ScenAfterSubmission(@)] ELSE scen
           /\ last' = Did("CreateSubmission", r.result, h, i, r.sub, 0)
    /\ nops' = nops + 1
    /\ UNCHANGED <<asms, calls>>

\* values a caller assigns to submission_notes
CallerNotes == {NULL, 1}

\* ProjectSubmission.save of the stored submission s after the caller set its
\* submission_notes: the object was loaded with its pk, so it was not
\* constructed with id=None; the hook is evaluated as for any save and the
\* row is then UPDATEd with the version the object carries
ProjectSubmission_resave(s, notes, upTable, subTable, now) ==
    LET i == subTable[s].user_project
        k == ProjectSubmission_hook(ObjOf(i, upTable[i]), subTable[s].submission_version,
                                    FALSE, TRUE, upTable, subTable, now)
    IN  [result |-> k.result, ups |-> k.ups,
         subs |-> IF k.result = "ok"
                  THEN [subTable EXCEPT ![s].submission_version = k.ver,
                                        ![s].submission_notes = notes]
                  ELSE subTable]

\* sub = ProjectSubmission.objects.get(pk=s); sub.submission_notes = notes;
\* sub.save()
SaveSubmission(s, notes) ==
    /\ nops < MaxOps
    /\ s \in DOMAIN subs
    /\ subs[s].submission_notes # notes
    /\ LET r == ProjectSubmission_resave(s, notes, ups, subs, Now)
       IN  /\ ups' = r.ups
           /\ subs' = r.subs
           /\ last' = Did("SaveSubmission", r.result, 0, subs[s].user_project, s, 0)
    /\ nops' = nops + 1
    /\ UNCHANGED <<asms, mem, scen, calls>>

\* ------------------------------------------------------ ProjectAssessment

\* validators=[MinValueValidator(0.0), MaxValueValidator(100.0)] of score
ScoreValidators(score) == score = NULL \/ (MinScore <= score /\ score <= MaxScore)

\* submission = OneToOneField(ProjectSubmission): at most one assessment row
\* per submission
OneToOne(table, s) == \A a \in DOMAIN table : table[a].submission # s

\* a cascade whose parent save names no update_fields writes every field
AssessmentCascadeFields_all == UserProjectFields

\* update_fields of the parent save in the cascade of ProjectAssessment.save
AssessmentCascadeFields == {"status", "completed_at", "updated_at"}

\* a cascade that marks the parent "assessed", whatever the passed flag
AssessmentCascade_assessed(up, passed, upTable, now) ==
    UserProject_save([up EXCEPT !.status = "assessed"],
                     upTable, AssessmentCascadeFields, now)

\* the cascade of ProjectAssessment.save onto user_project =
\* self.submission.user_project: the status (and, when passed, completed_at =
\* timezone.now()) is set on the object, and status, completed_at, updated_at
\* are saved; the name timezone is unbound, so a passed assessment raises
\* NameError after the status was set on the object and before the save
AssessmentCascade(up, passed, upTable, now) ==
    IF passed
    THEN IF timezone_defined
         THEN UserProject_save([up EXCEPT !.status = "completed", !.completed_at = now],
                               upTable, AssessmentCascadeFields, now)
         ELSE [result |-> "NameError", table |-> upTable,
               obj |-> [up EXCEPT !.status = "completed"]]
    ELSE UserProject_save([up EXCEPT !.status = "failed"],
                          upTable, AssessmentCascadeFields, now)

\* the stored columns of a ProjectAssessment row that a caller writes
AssessmentFields == {"passed", "score"}

\* the update_fields a caller passes to ProjectAssessment.save; the empty set
\* stands for a call without update_fields, where kwargs.get('update_fields',
\* []) is [] and super().save() writes every field
CallerUpdateFields == {{}, {"passed"}, {"score"}}

\* is_new or 'passed' in kwargs.get('update_fields', [])
CascadeRuns(is_new, update_fields) == is_new \/ "passed" \in update_fields

\* ProjectAssessment.save of a new object (is_new): the row is INSERTed by
\* super().save(), which runs no validator, and then the cascade runs
ProjectAssessment_save(up, s, passed, score, upTable, asmTable, now) ==
    LET aid == FreshId(asmTable, AsmIds)
    IN  IF ~OneToOne(asmTable, s)
        THEN [result |-> "IntegrityError", ups |-> upTable, obj |-> up, asm |-> 0,
              asms |-> asmTable]
        ELSE LET c == IF CascadeRuns(TRUE, {})
                      THEN AssessmentCascade(up, passed, upTable, now)
                      ELSE [result |-> "ok", table |-> upTable, obj |-> up]
             IN  [result |-> c.result, ups |-> c.table, obj |-> c.obj, asm |-> aid,
                  asms |-> asmTable @@
                             (aid :> [submission |-> s, passed |-> passed, score |-> score])]

\* scenario position of an instance after an assessment row was stored for one
\* of its submissions
ScenAfterAssessment(pos, passed) ==
    IF pos = 1 /\ ~passed THEN 2
    ELSE IF pos = 3 /\ passed THEN 4
    ELSE ScenOff

\* ProjectAssessment(submission=s, passed=passed, score=score).save(), where
\* s.user_project is the object h
CreateAssessment(h, s, passed, score) ==
    /\ nops < MaxOps
    /\ h \in DOMAIN mem
    /\ s \in DOMAIN subs
    /\ mem[h].id = subs[s].user_project
    /\ DOMAIN asms # AsmIds
    /\ LET r == ProjectAssessment_save(mem[h], s, passed, score, ups, asms, Now)
           i == mem[h].id
       IN  /\ ups' = r.ups
           /\ asms' = r.asms
           /\ mem' = [mem EXCEPT ![h] = r.obj]
           /\ scen' = IF r.asm # 0
                      THEN [scen EXCEPT ![i] = ScenAfterAssessment(@, passed)] ELSE scen
           /\ last' = Did("CreateAssessment", r.result, h, i, s, r.asm)
    /\ nops' = nops + 1
    /\ UNCHANGED <<subs, calls>>

\* ProjectAssessment.save of the stored assessment a of a submission of
\* instance i, after the caller set passed on the object: super().save()
\* UPDATEs the fields of update_fields (every field without update_fields),
\* then the cascade runs, on the parent as loaded through self.submission,
\* when update_fields names 'passed'
ProjectAssessment_update(a, i, passed, update_fields, upTable, asmTable, now) ==
    LET written == IF update_fields = {} THEN AssessmentFields ELSE update_fields
        row     == [asmTable[a] EXCEPT
                      !.passed = IF "passed" \in written THEN passed ELSE @]
        up      == ObjOf(i, upTable[i])
        c       == IF CascadeRuns(FALSE, update_fields)
                   THEN AssessmentCascade(up, passed, upTable, now)
                   ELSE [result |-> "ok", table |-> upTable, obj |-> up]
    IN  [result |-> c.result, ups |-> c.table,
         asms |-> [asmTable EXCEPT ![a] = row]]

\* a = ProjectAssessment.objects.get(pk=a); a.passed = passed;
\* a.save() or a.save(update_fields=update_fields)
UpdateAssessment(a, passed, update_fields) ==
    /\ nops < MaxOps
    /\ a \in DOMAIN asms
    /\ LET s == asms[a].submission
           i == subs[s].user_project
           r == ProjectAssessment_update(a, i, passed, update_fields, ups, asms, Now)
       IN  /\ ups' = r.ups
           /\ asms' = r.asms
           /\ last' = Did("UpdateAssessment", r.result, 0, i, s, a)
                         @@ [passed |-> passed, update_fields |-> update_fields]
    /\ nops' = nops + 1
    /\ UNCHANGED <<subs, mem, scen, calls>>

Next ==
    \/ \E h \in Handles, i \in InstIds : Get(h, i)
    \/ \E h \in Handles, f \in CallerFields : \E v \in CallerValues(f) : SetAttr(h, f, v)
    \/ \E h \in Handles, u \in Users, p \in Projects : CreateUserProject(h, u, p)
    \/ \E h \in Handles : SaveUserProject(h)
    \/ \E h \in Handles, ver \in CallerVersions, id_none \in BOOLEAN,
          db_ok \in BOOLEAN :
          CreateSubmission(h, ver, id_none, db_ok)
    \/ \E s \in SubIds, notes \in CallerNotes : SaveSubmission(s, notes)
    \/ \E h \in Handles, s \in SubIds, passed \in BOOLEAN, score \in CallerScores :
          CreateAssessment(h, s, passed, score)
    \/ \E a \in AsmIds, passed \in BOOLEAN, update_fields \in CallerUpdateFields :
          UpdateAssessment(a, passed, update_fields)

Spec == Init /\ [][Next]_vars

\* ------------------------------------ ProjectSubmission.save, interleaved

\* a save that waits for the in-flight saves of submissions of instance i
MayEnter_locked(i) ==
    \A u \in DOMAIN calls : ~(calls[u].pc = "insert" /\ calls[u].inst = i)

\* ProjectSubmission.save takes no lock, selects nothing for update and opens
\* no transaction: a save of a submission of instance i enters lines 204-211
\* whatever other saves are in flight
MayEnter(i) == TRUE

\* thread t calls ProjectSubmission(user_project=h, submission_version=ver
\* [, id=None]).save() and runs lines 204-211: the cascade onto the parent and
\* the read of the latest version
BeginSubmissionSave(t, h, ver, id_none, db_ok) ==
    /\ nops < MaxOps
    /\ t \notin DOMAIN calls
    /\ \A u \in Threads : u < t => u \in DOMAIN calls
    /\ h \in DOMAIN mem
    /\ mem[h].id \in DOMAIN ups
    /\ MayEnter(mem[h].id)
    /\ LET k == ProjectSubmission_hook(mem[h], ver, id_none, db_ok, ups, subs, Now)
           i == mem[h].id
       IN  /\ ups' = k.ups
           /\ mem' = [mem EXCEPT ![h] = k.obj]
           /\ calls' = calls @@
                 (t :> [pc |-> IF k.result = "ok" THEN "insert" ELSE "raised",
                        inst |-> i, hook |-> ~PkBeforeSave(id_none),
                        ver |-> k.ver, sub |-> 0])
           /\ last' = Did("BeginSubmissionSave", k.result, h, i, 0, 0)
    /\ nops' = nops + 1
    /\ UNCHANGED <<subs, asms, scen>>

\* thread t runs line 212 of the save it began: the INSERT
FinishSubmissionSave(t) ==
    /\ t \in DOMAIN calls
    /\ calls[t].pc = "insert"
    /\ DOMAIN subs # SubIds
    /\ LET n == ProjectSubmission_insert(calls[t].inst, calls[t].ver, subs)
       IN  /\ subs' = n.subs
           /\ calls' = [calls EXCEPT ![t].pc = "done", ![t].sub = n.sub]
           /\ last' = Did("FinishSubmissionSave", "ok", 0, calls[t].inst, n.sub, 0)
    /\ scen' = [scen EXCEPT ![calls[t].inst] = ScenAfterSubmission(@)]
    /\ UNCHANGED <<ups, asms, mem, nops>>

NextConcurrent ==
    \/ \E h \in Handles, i \in InstIds : Get(h, i)
    \/ \E h \in Handles : \E v \in CallerValues("status") : SetAttr(h, "status", v)
    \/ \E h \in Handles, u \in Users, p \in Projects : CreateUserProject(h, u, p)
    \/ \E h \in Handles : SaveUserProject(h)
    \/ \E t \in Threads, h \in Handles, ver \in CallerVersions, id_none \in BOOLEAN,
          db_ok \in BOOLEAN :
          BeginSubmissionSave(t, h, ver, id_none, db_ok)
    \/ \E t \in Threads : FinishSubmissionSave(t)

\* callers that create, load and save instances and set their status, and
\* threads whose saves of new submissions interleave between the read of the
\* latest version and the INSERT
SpecConcurrent == Init /\ [][NextConcurrent]_vars

\* ------------------------------------------------------------- properties

\* the step just taken was operation `op`
Step(op) == nops' = nops + 1 /\ last'.op = op

\* the highest version among the submissions `ss` (a non-empty set)
MaxVersion(ss) ==
    CHOOSE v \in {subs[s].submission_version : s \in ss} :
        \A t \in ss : subs[t].submission_version <= v

\* the submissions of the instance of the last operation other than the one
\* that operation created
Earlier == SubmissionsOf(subs, last.inst) \ {last.sub}

\* C1: right after a new submission was saved, its parent instance is stored
\* with status "submitted", whatever its status was before
C1_SubmittedAfterCreate ==
    (last.op = "CreateSubmission" /\ last.result = "ok")
        => ups[last.inst].status = "submitted"

\* C2: the first submission created for an instance has version 1, and every
\* later one a version strictly greater than that of every earlier submission
\* of the instance, so that no two of them share a version
C2_VersionsIncrease ==
    /\ (last.op = "CreateSubmission" /\ last.result = "ok")
          => IF Earlier = {} THEN subs[last.sub].submission_version = 1
             ELSE \A t \in Earlier :
                     subs[t].submission_version < subs[last.sub].submission_version
    /\ \A s, t \in DOMAIN subs :
          (s # t /\ subs[s].user_project = subs[t].user_project)
             => subs[s].submission_version # subs[t].submission_version

\* C3: creating an assessment with passed=true completes, and leaves the
\* parent instance stored as "completed" with a completed_at
C3_PassedCompletes ==
    (last.op = "CreateAssessment" /\ last.asm # 0 /\ asms[last.asm].passed)
        => /\ last.result = "ok"
           /\ ups[last.inst].status = "completed"
           /\ ups[last.inst].completed_at # NULL

\* C4: creating an assessment with passed=false leaves the parent instance
\* stored as "failed" with the completed_at it was stored with before, also
\* when the object the cascade goes through differs from the stored row
C4_FailedKeepsCompletedAt ==
    [][(Step("CreateAssessment") /\ last'.asm # 0 /\ ~asms'[last'.asm].passed)
          => /\ ups'[last'.inst].status = "failed"
             /\ ups'[last'.inst].completed_at = ups[last'.inst].completed_at]_vars

\* C5: a save of an object that is in_progress with no started_at stores the
\* instance with a started_at, and a save of an in_progress object that has a
\* started_at keeps that started_at, on the object and in the stored row
C5_StartedAtStampedOnce ==
    [][\A h \in DOMAIN mem :
          (Step("SaveUserProject") /\ last'.h = h /\ mem[h].status = "in_progress"
              /\ last'.result # "IntegrityError")
          => IF mem[h].started_at = NULL
             THEN /\ last'.result = "ok"
                  /\ ups'[last'.inst].started_at # NULL
             ELSE /\ mem'[h].started_at = mem[h].started_at
                  /\ ups'[last'.inst].started_at = mem[h].started_at]_vars

\* C6: a save of an assessment with a score below 0 or above 100 is rejected
\* and stores nothing, so that every stored assessment has a score the
\* validators accept
C6_ScoreInRange ==
    /\ \A a \in DOMAIN asms : ScoreValidators(asms[a].score)
    /\ (last.op = "CreateAssessment" /\ last.result = "ok")
          => ScoreValidators(asms[last.asm].score)

\* C7: a save that fails leaves every table as it was before the save
C7_AllOrNothing ==
    [][(nops' = nops + 1 /\ last'.result # "ok")
          => (ups' = ups /\ subs' = subs /\ asms' = asms)]_vars

\* C8: from a not_started instance with no submissions, submit S1, fail S1,
\* submit S2, pass S2 gives: version 1 and "submitted"; "failed"; version 2 and
\* "submitted"; "completed" with a completed_at
C8_Scenario ==
    \A i \in DOMAIN ups :
        /\ (scen[i] = 1 /\ last.op = "CreateSubmission" /\ last.inst = i)
              => /\ subs[last.sub].submission_version = 1
                 /\ ups[i].status = "submitted"
        /\ (scen[i] = 2 /\ last.op = "CreateAssessment" /\ last.inst = i)
              => ups[i].status = "failed"
        /\ (scen[i] = 3 /\ last.op = "CreateSubmission" /\ last.inst = i)
              => /\ subs[last.sub].submission_version = 2
                 /\ ups[i].status = "submitted"
        /\ (scen[i] = 4 /\ last.op = "CreateAssessment" /\ last.inst = i)
              => /\ ups[i].status = "completed"
                 /\ ups[i].completed_at # NULL

\* C9: the version stored for a new submission is the one the save hook
\* computes, 1 with no earlier submission of the instance and one more than
\* their highest version otherwise, whatever version the caller passed
C9_VersionNotFromCaller ==
    (last.op = "CreateSubmission" /\ last.result = "ok")
        => subs[last.sub].submission_version =
              IF Earlier = {} THEN 1 ELSE MaxVersion(Earlier) + 1

\* no two stored instances have the same (user, project)
UniqueUserProject ==
    \A i, j \in DOMAIN ups :
        i # j => ~(ups[i].user = ups[j].user /\ ups[i].project = ups[j].project)

\* the pair of object obj is the pair of a stored instance other than obj
PairTaken(obj) ==
    \E j \in DOMAIN ups :
        j # obj.id /\ ups[j].user = obj.user /\ ups[j].project = obj.project

\* C10: no two stored instances ever have the same (user, project), and the
\* save of a new instance whose pair is already stored is rejected and leaves
\* the table as it was
C10_UniquePair ==
    [][/\ UniqueUserProject'
       /\ ((Step("CreateUserProject") \/ Step("SaveUserProject"))
              /\ last'.result # "NameError" /\ PairTaken(mem'[last'.h]))
             => (last'.result = "IntegrityError" /\ ups' = ups)]_vars

\* a second instance for a stored pair was just rejected
C10_Witness ==
    /\ last.op = "CreateUserProject"
    /\ last.result = "IntegrityError"
    /\ PairTaken(mem[last.h])
    /\ ups # << >>

\* the step just taken ran a save hook that cascades to a parent instance
CascadeStep ==
    Step("CreateSubmission") \/ Step("CreateAssessment") \/ Step("UpdateAssessment")

\* C11: an instance stored as "archived" stays "archived" through every
\* creation of a submission and every save of an assessment; only a save of
\* the instance itself moves it out of "archived"
C11_ArchivedStays ==
    [][\A i \in DOMAIN ups :
          (CascadeStep /\ ups[i].status = "archived")
             => ups'[i].status = "archived"]_vars

\* C12: nothing serializes two creations of submissions of one instance: while
\* a save is between its read of the latest version and its INSERT, a second
\* save for the same instance can run its own read; and each save stores the
\* version it computed at its read, whatever was inserted since
C12_NoSerialization ==
    /\ \A t \in DOMAIN calls : \A h \in DOMAIN mem :
          (/\ nops < MaxOps
           /\ calls[t].pc = "insert"
           /\ mem[h].id = calls[t].inst
           /\ mem[h].id \in DOMAIN ups
           /\ t + 1 \in Threads \ DOMAIN calls)
             => ENABLED BeginSubmissionSave(t + 1, h, DefaultVersion, TRUE, TRUE)
    /\ \A t \in DOMAIN calls :
          calls[t].pc = "done"
             => subs[calls[t].sub].submission_version = calls[t].ver

\* two saves that both ran the creation hook have stored two submissions of
\* one instance with the same version
C12_Witness ==
    \E t, u \in DOMAIN calls :
        /\ t # u
        /\ calls[t].pc = "done" /\ calls[u].pc = "done"
        /\ calls[t].hook /\ calls[u].hook
        /\ calls[t].inst = calls[u].inst
        /\ calls[t].sub # calls[u].sub
        /\ subs[calls[t].sub].submission_version =
              subs[calls[u].sub].submission_version

\* C13: a creation of a submission stores one more than the highest version
\* among the submissions the instance had before it, whatever their number
\* and whatever gaps their versions leave, and 1 when it had none
C13_VersionIsMaxPlusOne ==
    [][(Step("CreateSubmission") /\ last'.result = "ok")
          => LET before == SubmissionsOf(subs, last'.inst)
             IN  subs'[last'.sub].submission_version =
                    IF before = {} THEN 1 ELSE MaxVersion(before) + 1]_vars

\* C14: a save of a stored submission keeps its version and the stored status
\* of its parent instance, and the first save of a submission runs the
\* creation hook, which leaves the parent stored as "submitted"
C14_HookOnFirstSaveOnly ==
    [][/\ Step("SaveSubmission")
            => /\ subs'[last'.sub].submission_version =
                     subs[last'.sub].submission_version
               /\ ups'[last'.inst].status = ups[last'.inst].status
       /\ (Step("CreateSubmission") /\ last'.result = "ok")
            => ups'[last'.inst].status = "submitted"]_vars

\* the part of C14 about the later saves alone: a save of a stored submission
\* changes neither its version nor any stored instance
ResaveKeepsVersionAndParent ==
    [][Step("SaveSubmission")
          => /\ subs'[last'.sub].submission_version =
                   subs[last'.sub].submission_version
             /\ ups' = ups]_vars

\* the status the cascade of an assessment gives the parent instance
StatusFor(passed) == IF passed THEN "completed" ELSE "failed"

\* C15: a save of a stored assessment leaves the parent instance stored with
\* the status of the assessment's passed flag when update_fields names
\* 'passed', and leaves the stored status and completed_at of the instance as
\* they were when it does not, also when the save writes a changed passed; a
\* save of a new assessment always leaves the parent with the status of its
\* passed flag
C15_CascadeIffPassedNamed ==
    [][/\ Step("UpdateAssessment")
            => IF "passed" \in last'.update_fields
               THEN ups'[last'.inst].status = StatusFor(last'.passed)
               ELSE /\ ups'[last'.inst].status = ups[last'.inst].status
                    /\ ups'[last'.inst].completed_at = ups[last'.inst].completed_at
       /\ (Step("CreateAssessment") /\ last'.asm # 0)
            => ups'[last'.inst].status = StatusFor(asms'[last'.asm].passed)]_vars

\* the part of C15 about saves that do not name 'passed': no stored instance
\* changes, also when the stored passed flag does
UnnamedPassedDoesNotCascade ==
    [][(Step("UpdateAssessment") /\ "passed" \notin last'.update_fields)
          => ups' = ups]_vars

\* a save without update_fields has just flipped the stored passed flag
UnnamedPassedFlipped ==
    /\ last.op = "UpdateAssessment"
    /\ last.update_fields = {}
    /\ asms[last.asm].passed = last.passed
    /\ ups[last.inst].status # StatusFor(last.passed)

\* the stored instances are the same before and after the step, and each has
\* the same value before and after in every field outside `written`
OnlyWritten(written) ==
    /\ DOMAIN ups' = DOMAIN ups
    /\ \A i \in DOMAIN ups : \A f \in UserProjectFields \ written :
          ups'[i][f] = ups[i][f]

\* C16: the creation of a submission changes no stored field of an instance
\* other than status and updated_at: started_at, completed_at,
\* repository_url, live_url, user and project are stored after it as before,
\* also when the object the cascade saves carries other values for them
C16_SubmissionCascadeFrame ==
    [][Step("CreateSubmission")
          => /\ OnlyWritten({"status", "updated_at"})
             /\ \A i \in DOMAIN ups : i # last'.inst => ups'[i] = ups[i]]_vars

\* the creation hook has just stored "submitted" through an object that
\* differs from the stored row in a field other than status and updated_at
C16_Witness ==
    /\ last.op = "CreateSubmission"
    /\ last.result = "ok"
    /\ ups[last.inst].status = "submitted"
    /\ ups[last.inst].updated_at = nops
    /\ \E f \in UserProjectFields \ {"status", "updated_at"} :
          mem[last.h][f] # ups[last.inst][f]

\* C17: a save of an assessment, new or stored, changes no stored field of an
\* instance other than status, completed_at and updated_at, and changes no
\* submission: started_at, repository_url, live_url, user and project of the
\* instance and every submission with its version are stored after it as
\* before
C17_AssessmentCascadeFrame ==
    [][(Step("CreateAssessment") \/ Step("UpdateAssessment"))
          => /\ OnlyWritten({"status", "completed_at", "updated_at"})
             /\ \A i \in DOMAIN ups : i # last'.inst => ups'[i] = ups[i]
             /\ subs' = subs]_vars

\* the cascade of an assessment has just stored "failed" through an object
\* that differs from the stored row in a field the cascade does not write
C17_Witness ==
    /\ last.op = "CreateAssessment"
    /\ last.result = "ok"
    /\ ups[last.inst].status = "failed"
    /\ ups[last.inst].updated_at = nops
    /\ subs # << >>
    /\ \E f \in UserProjectFields \ {"status", "completed_at", "updated_at"} :
          mem[last.h][f] # ups[last.inst][f]

\* C18 as stated: when the write to the parent fails during the creation of a
\* submission, the submission is stored all the same, for an instance whose
\* stored status was not moved to "submitted"
C18_StoredDespiteFailure ==
    (last.op = "CreateSubmission" /\ last.result = "DatabaseError")
        => /\ last.sub \in DOMAIN subs
           /\ ups[last.inst].status # "submitted"

\* C18: when the write to the parent fails during the creation of a
\* submission, the save ends there: no submission is stored and no stored
\* instance changes; only the object in memory carries "submitted"
C18_FailureEndsSave ==
    [][(Step("CreateSubmission") /\ last'.result = "DatabaseError")
          => /\ subs' = subs
             /\ ups' = ups
             /\ mem'[last'.h].status = "submitted"]_vars

\* the write to the parent has just failed in the creation of the first
\* submission of an instance that is not stored as "submitted"
C18_Witness ==
    /\ last.op = "CreateSubmission"
    /\ last.result = "DatabaseError"
    /\ ups[last.inst].status # "submitted"
    /\ SubmissionsOf(subs, last.inst) = {}
    /\ mem[last.h].status = "submitted"

\* the step just taken was a save of a submission or of an assessment
HookStep == CascadeStep \/ Step("SaveSubmission")

\* C19: no save of a submission or of an assessment gives an instance the
\* status "assessed", in the table or on the object it goes through; and a
\* save of an assessment that changes the stored status of an instance
\* changes it to "completed" or to "failed"
C19_NeverAssessed ==
    [][/\ HookStep
            => /\ \A i \in DOMAIN ups' :
                     ups'[i].status = "assessed"
                        => (i \in DOMAIN ups /\ ups[i].status = "assessed")
               /\ \A h \in DOMAIN mem' :
                     mem'[h].status = "assessed"
                        => (h \in DOMAIN mem /\ mem[h].status = "assessed")
       /\ (Step("CreateAssessment") \/ Step("UpdateAssessment"))
            => \A i \in DOMAIN ups :
                  ups'[i].status # ups[i].status
                     => ups'[i].status \in {"completed", "failed"}]_vars

\* the cascade of a new assessment has just stored "failed" for the instance
\* of the assessed submission
C19_Witness ==
    /\ last.op = "CreateAssessment"
    /\ last.result = "ok"
    /\ last.asm \in DOMAIN asms
    /\ ~asms[last.asm].passed
    /\ ups[last.inst].status = "failed"
    /\ ups[last.inst].updated_at = nops
    /\ mem[last.h].status = "failed"

\* an assessment row was just stored for a submission of its instance that is
\* not the one with the highest version
AssessedOlder ==
    /\ Step("CreateAssessment")
    /\ last'.asm # 0
    /\ last'.sub \notin LatestSubmission(subs, last'.inst)

\* C20: also when the assessed submission is not the one with the highest
\* version of its instance, the creation of an assessment leaves the instance
\* stored with the status of the assessment's passed flag, "completed" or
\* "failed", and a failing one leaves the stored completed_at as it was
C20_AnyAssessmentDecides ==
    [][AssessedOlder
          => /\ ups'[last'.inst].status = StatusFor(asms'[last'.asm].passed)
             /\ ~asms'[last'.asm].passed
                   => ups'[last'.inst].completed_at = ups[last'.inst].completed_at]_vars

\* the part of C20 about failing assessments alone: a failing assessment of
\* a submission that is not the latest leaves the instance stored as "failed"
FailingOlderDecides ==
    [][(AssessedOlder /\ ~asms'[last'.asm].passed)
          => ups'[last'.inst].status = "failed"]_vars

\* a failing assessment of a submission that is not the latest has just been
\* stored, while the latest submission of the instance has no assessment
FailedOlderStored ==
    /\ last.op = "CreateAssessment"
    /\ last.asm \in DOMAIN asms
    /\ ~asms[last.asm].passed
    /\ last.sub \notin LatestSubmission(subs, last.inst)
    /\ \A s \in LatestSubmission(subs, last.inst) : OneToOne(asms, s)
    /\ ups[last.inst].status = "failed"

====
